---- MODULE Spec2Model ----
(***************************************************************************)
(* Model of the plain test-case runner (engine/plain_iface/test_case.cpp): *)
(* the interrupt flag and its handler, the work directory life cycle, the  *)
(* fork-and-wait protocol with its timeout and EINTR handling, the         *)
(* classification of the wait outcome and the orchestration done by        *)
(* run_test_case_safe and do_run.                                          *)
(*                                                                         *)
(* The parent's position in the code is pc; every step that can be         *)
(* observed by an asynchronous signal or by the child is one action.       *)
(***************************************************************************)
EXTENDS Integers, Sequences, FiniteSets, TLC

VARIABLES
    pc,                 \* position of the parent (the runner) in the code
    interrupted_signo,  \* the process-wide interrupt flag, 0 when empty
    programmed,         \* signals currently redirected to interrupt_handler
    workdir,            \* the fs::auto_directory of the current run
    child,              \* the forked child process of the current run
    body_status,        \* optional<process::status> returned by fork_and_wait
    result,             \* result_ptr local to run_test_case_safe
    exc,                \* exception in flight (type "none" when there is none)
    outcome,            \* what do_run gave its caller
    runs,               \* number of do_run calls started so far
    hist                \* history of the current run (observation only)

vars == <<pc, interrupted_signo, programmed, workdir, child, body_status,
          result, exc, outcome, runs, hist>>

-----------------------------------------------------------------------------
(* Bounds of the model.                                                    *)

MaxRuns == 2          \* do_run calls made in one behaviour
MaxExitCode == 2      \* the test program exits with 0..MaxExitCode or 120
MaxStatusCode == 255  \* exit codes given to calculate_result on its own
MaxTermSig == 2       \* the test program dies of a signal in 1..MaxTermSig,
                      \* of SIGABRT or of SIGKILL
MaxStatusSig == 31    \* signal numbers given to calculate_result on its own

-----------------------------------------------------------------------------
(* Program constants.                                                      *)

exec_failure_code == 120
EXIT_SUCCESS == 0
EINTR == 4
EOTHER == EINTR + 1   \* some errno of wait other than EINTR
SIGHUP == 1
SIGINT == 2
SIGABRT == 6
SIGKILL == 9
SIGTERM == 15

InterruptSignals == {SIGHUP, SIGINT, SIGTERM}

-----------------------------------------------------------------------------
(* Values.                                                                 *)

\* results::result_ptr: NULL, passed, failed(reason), broken(reason).
NULL == [kind |-> "null", reason |-> ""]
passed == [kind |-> "passed", reason |-> ""]
failed(reason) == [kind |-> "failed", reason |-> reason]
broken(reason) == [kind |-> "broken", reason |-> reason]
good(r) == r.kind = "passed"

\* process::status and optional<process::status>.
exited(code) == [type |-> "exited", val |-> code, core |-> FALSE]
signaled(sig, core) == [type |-> "signaled", val |-> sig, core |-> core]
unknown_status == [type |-> "unknown", val |-> 0, core |-> FALSE]
none == [type |-> "none", val |-> 0, core |-> FALSE]

\* Exceptions in flight.
NoExc == [type |-> "none", num |-> 0, what |-> ""]
fs_error(what) == [type |-> "fs_error", num |-> 0, what |-> what]
system_error(what, errno) == [type |-> "system_error", num |-> errno, what |-> what]

\* The %d conversion of utils::format.
DigitChar(d) ==
    CASE d = 0 -> "0" [] d = 1 -> "1" [] d = 2 -> "2" [] d = 3 -> "3"
      [] d = 4 -> "4" [] d = 5 -> "5" [] d = 6 -> "6" [] d = 7 -> "7"
      [] d = 8 -> "8" [] d = 9 -> "9"

RECURSIVE FormatInt(_)
FormatInt(n) ==
    IF n < 0 THEN "-" \o FormatInt(0 - n)
    ELSE IF n < 10 THEN DigitChar(n)
    ELSE FormatInt(n \div 10) \o DigitChar(n % 10)

interrupted_error(signo) ==
    [type |-> "interrupted_error", num |-> signo,
     what |-> "Interrupted by signal " \o FormatInt(signo)]

-----------------------------------------------------------------------------
(* Pure functions of the source.                                           *)

\* interrupt_handler using interrupted_signo as a boolean.
interrupt_handler_sets_one(signo) == 1

\* interrupt_handler: the value it leaves in interrupted_signo.
interrupt_handler(signo) == signo

\* check_interrupt: whether it throws, and what.
check_interrupt_throws == interrupted_signo /= 0
check_interrupt_error == interrupted_error(interrupted_signo)

format_status(status) ==
    IF status.type = "exited"
    THEN "Exited with code " \o FormatInt(status.val)
    ELSE IF status.type = "signaled"
    THEN "Received signal " \o FormatInt(status.val) \o
             (IF status.core THEN " (core dumped)" ELSE "")
    ELSE "Terminated in an unknown manner"


\* calculate_result reporting a timeout as a failure of the test case.
calculate_result_timeout_failed(maybe_status) ==
    IF maybe_status = none
    THEN failed("Test case timed out")
    ELSE IF maybe_status.type = "exited"
    THEN IF maybe_status.val = EXIT_SUCCESS
         THEN passed
         ELSE IF maybe_status.val = exec_failure_code
         THEN broken("Failed to execute test program")
         ELSE failed(format_status(maybe_status))
    ELSE broken(format_status(maybe_status))

\* calculate_result with the test of exec_failure_code after the generic
\* test of a non-zero exit code, where it is never reached.
calculate_result_reordered(maybe_status) ==
    IF maybe_status = none
    THEN broken("Test case timed out")
    ELSE IF maybe_status.type = "exited"
    THEN IF maybe_status.val = EXIT_SUCCESS
         THEN passed
         ELSE failed(format_status(maybe_status))
    ELSE broken(format_status(maybe_status))

calculate_result(maybe_status) ==
    IF maybe_status = none
    THEN broken("Test case timed out")
    ELSE IF maybe_status.type = "exited"
    THEN IF maybe_status.val = EXIT_SUCCESS
         THEN passed
         ELSE IF maybe_status.val = exec_failure_code
         THEN broken("Failed to execute test program")
         ELSE failed(format_status(maybe_status))
    ELSE broken(format_status(maybe_status))

\* cleanup_failure_result without the test of result->good(): the cleanup
\* failure replaces whatever the test case gave.
cleanup_failure_result_unconditional(r, what) ==
    broken("Could not clean up test work directory: " \o what)

\* The handler of a failed workdir.cleanup() on the normal path.
cleanup_failure_result(r, what) ==
    IF good(r)
    THEN broken("Could not clean up test work directory: " \o what)
    ELSE r

\* do_run_outcome with the handler of std::exception left empty: result is
\* returned as run_test_case_safe left it.
do_run_outcome_empty_handler(e, r) ==
    IF e.type = "interrupted_error"
    THEN [kind |-> "interrupted", result |-> [kind |-> "null", reason |-> ""],
          signo |-> e.num]
    ELSE [kind |-> "result", result |-> r, signo |-> 0]

\* The try/catch of do_run: what the caller gets for the exception (or the
\* result) that run_test_case_safe left.
do_run_outcome(e, r) ==
    IF e.type = "none"
    THEN [kind |-> "result", result |-> r, signo |-> 0]
    ELSE IF e.type = "interrupted_error"
    THEN [kind |-> "interrupted", result |-> NULL, signo |-> e.num]
    ELSE [kind |-> "result",
          result |-> broken("The test caused an error in the runtime system: "
                            \o e.what),
          signo |-> 0]

NoOutcome == [kind |-> "none", result |-> NULL, signo |-> 0]

-----------------------------------------------------------------------------
(* Library objects the runner uses.                                        *)

\* fs::auto_directory: cleanup() removes the directory the first time it is
\* called and is a no-op afterwards; a failed removal throws fs::error.
NoWorkdir == [created |-> FALSE, exists |-> FALSE, cleaned |-> FALSE,
              removals |-> 0]
auto_directory == [created |-> TRUE, exists |-> TRUE, cleaned |-> FALSE,
                   removals |-> 0]
auto_directory_cleanup(wd, ok) ==
    IF wd.cleaned THEN wd
    ELSE [wd EXCEPT !.cleaned = TRUE, !.exists = ~ok, !.removals = @ + 1]
auto_directory_cleanup_throws(wd, ok) == ~wd.cleaned /\ ~ok

\* signals::programmer: the three objects in construction order.
ProgrammerOrder == <<SIGHUP, SIGINT, SIGTERM>>
NextToProgram ==
    ProgrammerOrder[CHOOSE i \in 1..3 :
        /\ ProgrammerOrder[i] \notin programmed
        /\ \A j \in 1..(i - 1) : ProgrammerOrder[j] \in programmed]
NextToUnprogram ==
    ProgrammerOrder[CHOOSE i \in 1..3 :
        /\ ProgrammerOrder[i] \in programmed
        /\ \A j \in 1..(i - 1) : ProgrammerOrder[j] \notin programmed]
LastProgrammed ==
    ProgrammerOrder[CHOOSE i \in 1..3 :
        /\ ProgrammerOrder[i] \in programmed
        /\ \A j \in (i + 1)..3 : ProgrammerOrder[j] \notin programmed]

\* process::child_with_files.
\* chdir records what chdir(cwd) of isolate_process did, body how
\* execute_test_case::operator() ended.
NoChild == [state |-> "none", at |-> "none", status |-> none,
            chdir |-> "none", body |-> "none"]
forked_child == [state |-> "running", at |-> "isolate", status |-> none,
                 chdir |-> "none", body |-> "none"]
terminated(c, status) == [c EXCEPT !.state = "zombie", !.at = "gone",
                                   !.status = status]
\* kill(pid, SIGKILL): a running child dies of SIGKILL, a dead one stays.
killed(c) ==
    IF c.state = "running" THEN terminated(c, signaled(SIGKILL, FALSE)) ELSE c
reaped(c) == [c EXCEPT !.state = "reaped"]

\* Error texts of the library, as e.what().
MkdtempError == "mkdtemp failed"
MkdirError == "mkdir failed"
RemoveError == "rmdir failed"
WaitError == "waitpid failed"

NewHist == [sig |-> FALSE, raised |-> FALSE, eintr |-> <<>>, fw |-> "none",
            explicit |-> "none", forced |-> "none", implicit |-> "none",
            classified |-> NULL, prev |-> "none", last |-> 0,
            checks |-> <<>>]

\* The history after a call of check_interrupt() at `at': the flag it found
\* and the signal number it threw (0 when it returned).
Checked(h, at) ==
    [h EXCEPT !.checks = Append(@,
        [at |-> at, flag |-> interrupted_signo,
         threw |-> IF check_interrupt_throws THEN check_interrupt_error.num
                   ELSE 0])]

-----------------------------------------------------------------------------
(* Initial state: no run started, the flag empty, no handler programmed.   *)

Init ==
    /\ pc = "idle"
    /\ interrupted_signo = 0
    /\ programmed = {}
    /\ workdir = NoWorkdir
    /\ child = NoChild
    /\ body_status = none
    /\ result = NULL
    /\ exc = NoExc
    /\ outcome = NoOutcome
    /\ runs = 0
    /\ hist = NewHist

-----------------------------------------------------------------------------
(* Asynchronous signal delivery.                                           *)

\* A signal whose handler is programmed arrives while the runner is not
\* blocked in the timed wait: interrupt_handler runs and the code goes on.
SignalDelivered ==
    /\ \E signo \in programmed :
          /\ interrupted_signo' = interrupt_handler(signo)
          /\ hist' = [hist EXCEPT !.sig = TRUE, !.last = signo]
    /\ UNCHANGED <<pc, programmed, workdir, child, body_status, result, exc,
                   outcome, runs>>

\* A signal arrives while the runner is blocked in child->wait(timeout):
\* interrupt_handler runs, the wait fails with EINTR and fork_and_wait
\* enters its handler of process::system_error.
SignalInterruptsWait ==
    /\ pc = "wait"
    /\ \E signo \in programmed :
          /\ interrupted_signo' = interrupt_handler(signo)
          /\ hist' = [hist EXCEPT !.sig = TRUE, !.last = signo,
                                  !.eintr = <<"EINTR">>]
    /\ pc' = "kill"
    /\ UNCHANGED <<programmed, workdir, child, body_status, result, exc,
                   outcome, runs>>

-----------------------------------------------------------------------------
(* The child process: execute_test_case.                                   *)

\* The statuses a running test program can terminate with.
ProgramStatuses ==
    {exited(c) : c \in (0..MaxExitCode) \cup {exec_failure_code}}
    \cup {signaled(s, core) : s \in (1..MaxTermSig) \cup {SIGABRT, SIGKILL},
                              core \in BOOLEAN}
    \cup {unknown_status}

\* ChildIsolate with operator() lacking its final std::abort(): after the
\* handler of std::runtime_error the hook returns and the child goes on in
\* the code of its caller.
ChildIsolateNoAbort ==
    /\ child.state = "running" /\ child.at = "isolate"
    /\ \E chdir_ok \in BOOLEAN :
          child' = IF chdir_ok
                   THEN [child EXCEPT !.at = "exec", !.chdir = "ok"]
                   ELSE [child EXCEPT !.at = "returned", !.chdir = "failed",
                                      !.body = "returned"]
    /\ UNCHANGED <<pc, interrupted_signo, programmed, workdir, body_status,
                   result, exc, outcome, runs, hist>>

\* isolate_process: chdir into the run directory works or throws
\* std::runtime_error, which operator() catches before calling abort().
ChildIsolate ==
    /\ child.state = "running" /\ child.at = "isolate"
    /\ \E chdir_ok \in BOOLEAN, core \in BOOLEAN :
          child' = IF chdir_ok
                   THEN [child EXCEPT !.at = "exec", !.chdir = "ok"]
                   ELSE [terminated(child, signaled(SIGABRT, core))
                            EXCEPT !.chdir = "failed", !.body = "abort"]
    /\ UNCHANGED <<pc, interrupted_signo, programmed, workdir, body_status,
                   result, exc, outcome, runs, hist>>

\* process::exec: the test program starts, or exec fails and the child
\* exits with exec_failure_code.
ChildExec ==
    /\ child.state = "running" /\ child.at = "exec"
    /\ \E exec_ok \in BOOLEAN :
          child' = IF exec_ok
                   THEN [child EXCEPT !.at = "program", !.body = "exec"]
                   ELSE [terminated(child, exited(exec_failure_code))
                            EXCEPT !.body = "exit"]
    /\ UNCHANGED <<pc, interrupted_signo, programmed, workdir, body_status,
                   result, exc, outcome, runs, hist>>

\* The test program terminates on its own (it may also never do so).
ChildTerminates ==
    /\ child.state = "running" /\ child.at = "program"
    /\ \E status \in ProgramStatuses : child' = terminated(child, status)
    /\ UNCHANGED <<pc, interrupted_signo, programmed, workdir, body_status,
                   result, exc, outcome, runs, hist>>

-----------------------------------------------------------------------------
(* The runner: do_run and run_test_case_safe.                              *)

\* DoRunCall with the interrupt flag cleared at the start of the run.
DoRunCallResetsFlag ==
    /\ pc \in {"idle", "done"}
    /\ runs < MaxRuns
    /\ runs' = runs + 1
    /\ pc' = "program"
    /\ interrupted_signo' = 0
    /\ workdir' = NoWorkdir
    /\ child' = NoChild
    /\ body_status' = none
    /\ result' = NULL
    /\ exc' = NoExc
    /\ outcome' = NoOutcome
    /\ hist' = [NewHist EXCEPT !.prev = outcome.kind]
    /\ UNCHANGED programmed

\* do_run is called.  The locals of the call are fresh; interrupted_signo is
\* a static of the process and keeps its value.
DoRunCall ==
    /\ pc \in {"idle", "done"}
    /\ runs < MaxRuns
    /\ runs' = runs + 1
    /\ pc' = "program"
    /\ workdir' = NoWorkdir
    /\ child' = NoChild
    /\ body_status' = none
    /\ result' = NULL
    /\ exc' = NoExc
    /\ outcome' = NoOutcome
    /\ hist' = [NewHist EXCEPT !.prev = outcome.kind]
    /\ UNCHANGED <<interrupted_signo, programmed>>

\* signals::programmer sighup, sigint, sigterm: one constructor per step.
ProgramHandler ==
    /\ pc = "program"
    /\ programmed' = programmed \cup {NextToProgram}
    /\ pc' = IF programmed' = InterruptSignals THEN "create_workdir"
             ELSE "program"
    /\ UNCHANGED <<interrupted_signo, workdir, child, body_status, result,
                   exc, outcome, runs, hist>>

\* fs::auto_directory workdir(create_work_directory()): mkdtemp works, or
\* throws fs::error before workdir is constructed.
CreateWorkDirectory ==
    /\ pc = "create_workdir"
    /\ \E ok \in BOOLEAN :
          IF ok
          THEN /\ workdir' = auto_directory
               /\ pc' = "check_start"
               /\ exc' = exc
          ELSE /\ workdir' = workdir
               /\ exc' = fs_error(MkdtempError)
               /\ pc' = "unwind_programmers"
    /\ UNCHANGED <<interrupted_signo, programmed, child, body_status, result,
                   outcome, runs, hist>>

\* A check_interrupt() inside the try block of run_test_case_safe: goes on
\* to `next', or throws interrupted_error into the catch block.
CheckInterruptInTry(at, next) ==
    /\ pc = at
    /\ IF check_interrupt_throws
       THEN /\ exc' = check_interrupt_error
            /\ pc' = "catch_cleanup"
            /\ hist' = [Checked(hist, at) EXCEPT !.raised = TRUE]
       ELSE /\ exc' = exc
            /\ pc' = next
            /\ hist' = Checked(hist, at)
    /\ UNCHANGED <<interrupted_signo, programmed, workdir, child, body_status,
                   result, outcome, runs>>

CheckInterruptStart == CheckInterruptInTry("check_start", "mkdir")

\* run_test_case_safe_workdir: fs::mkdir(rundir, 0755).
MkdirRundir ==
    /\ pc = "mkdir"
    /\ \E ok \in BOOLEAN :
          IF ok
          THEN pc' = "check_prefork" /\ exc' = exc
          ELSE pc' = "unwind_workdir" /\ exc' = fs_error(MkdirError)
    /\ UNCHANGED <<interrupted_signo, programmed, workdir, child, body_status,
                   result, outcome, runs, hist>>

\* run_test_case_safe_workdir without the check_interrupt() before the fork.
NoCheckInterruptPreFork ==
    /\ pc = "check_prefork"
    /\ pc' = "fork"
    /\ UNCHANGED <<interrupted_signo, programmed, workdir, child, body_status,
                   result, exc, outcome, runs, hist>>

CheckInterruptPreFork == CheckInterruptInTry("check_prefork", "fork")

-----------------------------------------------------------------------------
(* fork_and_wait.                                                          *)

\* process::child_with_files::fork(hook, outfile, errfile).
Fork ==
    /\ pc = "fork"
    /\ child' = forked_child
    /\ pc' = "wait"
    /\ UNCHANGED <<interrupted_signo, programmed, workdir, body_status,
                   result, exc, outcome, runs, hist>>

\* child->wait(timeout) returns the status of a terminated child.
WaitReturnsStatus ==
    /\ pc = "wait"
    /\ child.state = "zombie"
    /\ body_status' = child.status
    /\ child' = reaped(child)
    /\ pc' = "check_postwait"
    /\ hist' = [hist EXCEPT !.fw = "status"]
    /\ UNCHANGED <<interrupted_signo, programmed, workdir, result, exc,
                   outcome, runs>>

\* The wait without its timeout: as long as the child runs, it blocks.
WaitNeverTimesOut ==
    /\ pc = "wait"
    /\ child.state = "running"
    /\ FALSE
    /\ UNCHANGED vars

\* child->wait(timeout) throws process::timeout_error: the timed wait has
\* killed and reaped the child by then; fork_and_wait returns none.
WaitTimesOut ==
    /\ pc = "wait"
    /\ child.state = "running"
    /\ body_status' = none
    /\ child' = reaped(killed(child))
    /\ pc' = "check_postwait"
    /\ hist' = [hist EXCEPT !.fw = "timeout"]
    /\ UNCHANGED <<interrupted_signo, programmed, workdir, result, exc,
                   outcome, runs>>

\* child->wait(timeout) throws process::system_error with an errno other
\* than EINTR: fork_and_wait rethrows it; nothing is done about the child.
WaitFails ==
    /\ pc = "wait"
    /\ exc' = system_error(WaitError, EOTHER)
    /\ pc' = "unwind_workdir"
    /\ hist' = [hist EXCEPT !.fw = "error"]
    /\ UNCHANGED <<interrupted_signo, programmed, workdir, child, body_status,
                   result, outcome, runs>>

\* EINTR handler: (void)::kill(child->pid(), SIGKILL).
KillChild ==
    /\ pc = "kill"
    /\ child' = killed(child)
    /\ pc' = "reap"
    /\ hist' = [hist EXCEPT !.eintr = Append(@, "kill")]
    /\ UNCHANGED <<interrupted_signo, programmed, workdir, body_status,
                   result, exc, outcome, runs>>

\* EINTR handler: (void)child->wait(), the blocking wait that reaps.
ReapChild ==
    /\ pc = "reap"
    /\ child.state = "zombie"
    /\ child' = reaped(child)
    /\ pc' = "check_eintr"
    /\ hist' = [hist EXCEPT !.eintr = Append(@, "wait")]
    /\ UNCHANGED <<interrupted_signo, programmed, workdir, body_status,
                   result, exc, outcome, runs>>

\* The EINTR handler without its check_interrupt(): the interrupted wait is
\* reported like a timeout.
EintrReturnsNone ==
    /\ pc = "check_eintr"
    /\ body_status' = none
    /\ pc' = "check_postwait"
    /\ hist' = [hist EXCEPT !.fw = "timeout"]
    /\ UNCHANGED <<interrupted_signo, programmed, workdir, child, result, exc,
                   outcome, runs>>

\* EINTR handler: check_interrupt(); UNREACHABLE.
CheckInterruptEintr ==
    /\ pc = "check_eintr"
    /\ IF check_interrupt_throws
       THEN /\ exc' = check_interrupt_error
            /\ pc' = "catch_cleanup"
            /\ hist' = [Checked(hist, "check_eintr") EXCEPT
                            !.raised = TRUE, !.fw = "interrupted",
                            !.eintr = Append(@, "check_interrupt")]
       ELSE /\ exc' = exc
            /\ pc' = "aborted"
            /\ hist' = [Checked(hist, "check_eintr") EXCEPT
                            !.fw = "unreachable",
                            !.eintr = Append(@, "check_interrupt")]
    /\ UNCHANGED <<interrupted_signo, programmed, workdir, child, body_status,
                   result, outcome, runs>>

-----------------------------------------------------------------------------
(* After fork_and_wait.                                                    *)

CheckInterruptPostWait == CheckInterruptInTry("check_postwait", "classify")

\* return calculate_result(body_status); result = ...
Classify ==
    /\ pc = "classify"
    /\ result' = calculate_result(body_status)
    /\ hist' = [hist EXCEPT !.classified = result']
    /\ pc' = "cleanup"
    /\ UNCHANGED <<interrupted_signo, programmed, workdir, child, body_status,
                   exc, outcome, runs>>

\* CleanupWorkdir removing workdir.directory() itself instead of calling
\* workdir.cleanup(): the auto_directory does not learn of the removal.
CleanupWorkdirDirect ==
    /\ pc = "cleanup"
    /\ \E ok \in BOOLEAN :
          /\ workdir' = [workdir EXCEPT !.exists = ~ok, !.removals = @ + 1]
          /\ IF ~ok
             THEN /\ result' = cleanup_failure_result(result, RemoveError)
                  /\ hist' = [hist EXCEPT !.explicit = "failed"]
             ELSE /\ result' = result
                  /\ hist' = [hist EXCEPT !.explicit = "ok"]
    /\ pc' = "unprogram"
    /\ UNCHANGED <<interrupted_signo, programmed, child, body_status, exc,
                   outcome, runs>>

\* try { workdir.cleanup(); } catch (const fs::error& e) { ... }
CleanupWorkdir ==
    /\ pc = "cleanup"
    /\ \E ok \in BOOLEAN :
          /\ workdir' = auto_directory_cleanup(workdir, ok)
          /\ IF auto_directory_cleanup_throws(workdir, ok)
             THEN /\ result' = cleanup_failure_result(result, RemoveError)
                  /\ hist' = [hist EXCEPT !.explicit = "failed"]
             ELSE /\ result' = result
                  /\ hist' = [hist EXCEPT !.explicit = "ok"]
    /\ pc' = "unprogram"
    /\ UNCHANGED <<interrupted_signo, programmed, child, body_status, exc,
                   outcome, runs>>

\* sighup.unprogram(); sigint.unprogram(); sigterm.unprogram(): one per step.
UnprogramHandlers ==
    /\ pc = "unprogram"
    /\ programmed' = programmed \ {NextToUnprogram}
    /\ pc' = IF programmed' = {} THEN "check_final" ELSE "unprogram"
    /\ UNCHANGED <<interrupted_signo, workdir, child, body_status, result,
                   exc, outcome, runs, hist>>

\* The last check_interrupt() and `return result': the function is left
\* either way, with interrupted_error or with the result.
CheckInterruptFinal ==
    /\ pc = "check_final"
    /\ IF check_interrupt_throws
       THEN /\ exc' = check_interrupt_error
            /\ hist' = [Checked(hist, "check_final") EXCEPT !.raised = TRUE]
       ELSE /\ exc' = exc
            /\ hist' = Checked(hist, "check_final")
    /\ pc' = "unwind_workdir"
    /\ UNCHANGED <<interrupted_signo, programmed, workdir, child, body_status,
                   result, outcome, runs>>

-----------------------------------------------------------------------------
(* catch (const engine::interrupted_error& e).                             *)

\* workdir.cleanup(): a failure throws fs::error out of the catch block,
\* in place of the interrupted_error being handled.
CatchCleanup ==
    /\ pc = "catch_cleanup"
    /\ \E ok \in BOOLEAN :
          /\ workdir' = auto_directory_cleanup(workdir, ok)
          /\ IF auto_directory_cleanup_throws(workdir, ok)
             THEN /\ exc' = fs_error(RemoveError)
                  /\ pc' = "unwind_workdir"
                  /\ hist' = [hist EXCEPT !.forced = "failed"]
             ELSE /\ exc' = exc
                  /\ pc' = "catch_unprogram"
                  /\ hist' = [hist EXCEPT !.forced = "ok"]
    /\ UNCHANGED <<interrupted_signo, programmed, child, body_status, result,
                   outcome, runs>>

\* sighup.unprogram(); sigint.unprogram(); sigterm.unprogram(); throw e.
CatchUnprogram ==
    /\ pc = "catch_unprogram"
    /\ programmed' = programmed \ {NextToUnprogram}
    /\ pc' = IF programmed' = {} THEN "unwind_workdir" ELSE "catch_unprogram"
    /\ UNCHANGED <<interrupted_signo, workdir, child, body_status, result,
                   exc, outcome, runs, hist>>

-----------------------------------------------------------------------------
(* Leaving run_test_case_safe: the locals are destroyed in reverse order   *)
(* of construction, whether by return or by an exception.                  *)

\* DestroyWorkdir for a work directory held as a plain fs::path: leaving the
\* scope removes nothing.
DestroyWorkdirPlainPath ==
    /\ pc = "unwind_workdir"
    /\ pc' = "unwind_programmers"
    /\ hist' = [hist EXCEPT !.implicit = "noop"]
    /\ UNCHANGED <<interrupted_signo, programmed, workdir, child, body_status,
                   result, exc, outcome, runs>>

\* ~auto_directory: cleanup() if it has not run yet; errors are swallowed.
DestroyWorkdir ==
    /\ pc = "unwind_workdir"
    /\ \E ok \in BOOLEAN :
          /\ workdir' = auto_directory_cleanup(workdir, ok)
          /\ hist' = [hist EXCEPT !.implicit =
                         IF ~workdir.created \/ workdir.cleaned THEN "noop"
                         ELSE IF ok THEN "ok" ELSE "failed"]
    /\ pc' = "unwind_programmers"
    /\ UNCHANGED <<interrupted_signo, programmed, child, body_status, result,
                   exc, outcome, runs>>

\* DestroyProgrammers for handlers installed without signals::programmer
\* objects: leaving the scope restores nothing.
DestroyProgrammersNoRestore ==
    /\ pc = "unwind_programmers"
    /\ pc' = "do_run_exit"
    /\ UNCHANGED <<interrupted_signo, programmed, workdir, child, body_status,
                   result, exc, outcome, runs, hist>>

\* ~programmer of sigterm, sigint, sighup: unprogram() if still programmed.
DestroyProgrammers ==
    /\ pc = "unwind_programmers"
    /\ IF programmed = {}
       THEN programmed' = programmed /\ pc' = "do_run_exit"
       ELSE programmed' = programmed \ {LastProgrammed} /\ pc' = pc
    /\ UNCHANGED <<interrupted_signo, workdir, child, body_status, result,
                   exc, outcome, runs, hist>>

\* do_run: rethrow interrupted_error, turn any other exception into a
\* broken result, INV(result.get() != NULL), return.
DoRunExit ==
    /\ pc = "do_run_exit"
    /\ outcome' = do_run_outcome(exc, result)
    /\ pc' = "done"
    /\ UNCHANGED <<interrupted_signo, programmed, workdir, child, body_status,
                   result, exc, runs, hist>>

-----------------------------------------------------------------------------

Next ==
    \/ SignalDelivered
    \/ SignalInterruptsWait
    \/ ChildIsolate
    \/ ChildExec
    \/ ChildTerminates
    \/ DoRunCall
    \/ ProgramHandler
    \/ CreateWorkDirectory
    \/ CheckInterruptStart
    \/ MkdirRundir
    \/ CheckInterruptPreFork
    \/ Fork
    \/ WaitReturnsStatus
    \/ WaitTimesOut
    \/ WaitFails
    \/ KillChild
    \/ ReapChild
    \/ CheckInterruptEintr
    \/ CheckInterruptPostWait
    \/ Classify
    \/ CleanupWorkdir
    \/ UnprogramHandlers
    \/ CheckInterruptFinal
    \/ CatchCleanup
    \/ CatchUnprogram
    \/ DestroyWorkdir
    \/ DestroyProgrammers
    \/ DoRunExit

Spec == Init /\ [][Next]_vars

\* The steps the runner takes by itself.  The runner is a sequential program
\* that goes on executing; the timed wait returns when the child has
\* terminated or the timeout has expired; a child sent SIGKILL is dead when
\* the blocking wait looks for it.  Signals, the child's own progress, a
\* failure of the wait and further calls of do_run are not bound to happen.
RunnerStep ==
    \/ ProgramHandler
    \/ CreateWorkDirectory
    \/ CheckInterruptStart
    \/ MkdirRundir
    \/ CheckInterruptPreFork
    \/ Fork
    \/ WaitReturnsStatus
    \/ WaitTimesOut
    \/ KillChild
    \/ ReapChild
    \/ CheckInterruptEintr
    \/ CheckInterruptPostWait
    \/ Classify
    \/ CleanupWorkdir
    \/ UnprogramHandlers
    \/ CheckInterruptFinal
    \/ CatchCleanup
    \/ CatchUnprogram
    \/ DestroyWorkdir
    \/ DestroyProgrammers
    \/ DoRunExit

SpecLive == Spec /\ WF_vars(RunnerStep)

-----------------------------------------------------------------------------
(* Properties.                                                             *)

Done == pc = "done"
Returned == Done /\ outcome.kind = "result"
Interrupted == Done /\ outcome.kind = "interrupted"

\* C1: a run during which a signal was delivered while its handler was
\* programmed ends by raising Interrupted and returns no Result, whatever
\* fails in between.
C1_SignalEndsInInterrupted ==
    (Done /\ hist.sig) => outcome.kind = "interrupted"

\* C2: do_run lets only Interrupted escape; any other exception that leaves
\* run_test_case_safe becomes a broken result carrying its message, and a
\* returned result is non-null and passed, failed or broken.
C2_OnlyInterruptedEscapes ==
    Done =>
        /\ outcome.kind \in {"result", "interrupted"}
        /\ outcome.kind = "interrupted" => exc.type = "interrupted_error"
        /\ outcome.kind = "result" =>
              /\ outcome.result /= NULL
              /\ outcome.result.kind \in {"passed", "failed", "broken"}
        /\ exc.type \in {"fs_error", "system_error"} =>
              /\ outcome.kind = "result"
              /\ outcome.result.kind = "broken"
              /\ outcome.result.reason =
                     "The test caused an error in the runtime system: "
                     \o exc.what

\* C2 witness: a run left by an exception other than Interrupted.
C2_Witness ==
    Done /\ exc.type = "fs_error" /\ exc.what = MkdirError
         /\ outcome.kind = "result"

\* C3: once check_interrupt has thrown in a run, the run ends by raising
\* Interrupted, also when the forced cleanup fails.
C3_RaisedStaysInterrupted ==
    (Done /\ hist.raised) => outcome.kind = "interrupted"

\* C4: when a run is over, its child is neither alive nor unreaped.
C4_NoChildLeftBehind ==
    Done => child.state \in {"none", "reaped"}

\* C5 as stated: when a run that created a work directory is over, the
\* directory no longer exists and was removed exactly once.
C5_RemovedExactlyOnce ==
    (Done /\ workdir.created) => (~workdir.exists /\ workdir.removals = 1)

RemovalFailed ==
    "failed" \in {hist.explicit, hist.forced, hist.implicit}

\* C5 as amended: when a run that created a work directory is over, exactly
\* one removal of the directory has been attempted, and the directory
\* exists only if that attempt failed.
C5_RemovalAttemptedExactlyOnce ==
    (Done /\ workdir.created) =>
        /\ workdir.removals = 1
        /\ workdir.cleaned
        /\ workdir.exists <=> RemovalFailed

\* C5 witness: a run left by an exception whose only removal failed.
C5_Witness ==
    Done /\ workdir.created /\ workdir.exists /\ hist.implicit = "failed"

\* C7: on a run that returns a result and whose workdir.cleanup() failed
\* on the normal path, a passed classification becomes broken with the
\* cleanup error text and a failed or broken classification is returned
\* unchanged.
C7_CleanupFailureResult ==
    (Returned /\ exc.type = "none" /\ hist.explicit = "failed") =>
        IF hist.classified.kind = "passed"
        THEN outcome.result =
                 broken("Could not clean up test work directory: "
                        \o RemoveError)
        ELSE /\ outcome.result = hist.classified
             /\ outcome.result.kind \in {"failed", "broken"}

\* C7 witness: a passed test case whose cleanup failed.
C7_Witness ==
    /\ Returned /\ hist.explicit = "failed"
    /\ hist.classified.kind = "passed"
    /\ outcome.result.kind = "broken"

\* C8: when the timed wait expires and no interrupt is pending, the run
\* gives broken("Test case timed out"), and from the return of the wait on
\* the child is neither alive nor unreaped.
C8_TimeoutBrokenAndReaped ==
    hist.fw = "timeout" =>
        /\ child.state = "reaped"
        /\ body_status = none
        /\ (Done /\ interrupted_signo = 0) =>
              /\ outcome.kind = "result"
              /\ outcome.result = broken("Test case timed out")

\* C8 witness: a run whose wait timed out has returned.
C8_Witness ==
    Returned /\ hist.fw = "timeout" /\ interrupted_signo = 0

EintrPath == <<"EINTR", "kill", "wait", "check_interrupt">>

C10_HandlersCoverResources ==
    (pc \notin {"idle", "done"} /\ (workdir.exists \/ child.state = "running"))
        => programmed = InterruptSignals

\* C11: when a run is over, by whatever exit path, none of SIGHUP, SIGINT
\* and SIGTERM is still redirected to interrupt_handler.
C11_HandlersRemovedAtExit ==
    Done => programmed = {}

\* C11 witness: a run left by an exception other than Interrupted, where no
\* unprogram() call of run_test_case_safe was reached.
C11_Witness ==
    Done /\ exc.type = "system_error" /\ programmed = {}

\* C12: when the chdir of isolate_process fails in the child, the parent
\* sees exit code 120 and the run gives
\* broken("Failed to execute test program").
C12_IsolationFailureIsExecFailure ==
    (child.chdir = "failed" /\ hist.fw = "status") =>
        /\ body_status = exited(120)
        /\ Returned => outcome.result = broken("Failed to execute test program")

\* C13: the child body ends in exactly one of a successful exec, exit with
\* code 120 after a failed exec, or abort; the child never goes on in the
\* code of its caller.  (A body that has not ended belongs to a child that
\* is still in it or that SIGKILL stopped in it.)
C13_ChildBodyNeverReturns ==
    /\ child.at \in {"none", "isolate", "exec", "program", "gone"}
    /\ child.body \in {"none", "exec", "exit", "abort"}
    /\ child.body = "none" =>
          \/ child.at \in {"none", "isolate", "exec"}
          \/ child.at = "gone" /\ child.status = signaled(9, FALSE)
    /\ child.at \in {"none", "isolate", "exec"} => child.body = "none"
    /\ child.at = "program" => child.body = "exec"
    /\ child.body = "exec" => child.chdir = "ok"
    /\ child.body = "exit" =>
          /\ child.chdir = "ok"
          /\ child.status = exited(120)
          /\ child.at = "gone"
    /\ child.body = "abort" =>
          /\ child.chdir = "failed"
          /\ child.status.type = "signaled" /\ child.status.val = 6
          /\ child.at = "gone"

\* C13 witness: a child whose isolation failed has ended in abort.
C13_Witness ==
    child.body = "abort" /\ child.state = "zombie"

\* C14: once an explicit workdir.cleanup() has run, successfully or not,
\* the cleanup on scope exit removes nothing and raises nothing: at most one
\* removal is attempted over both calls.
C14_CleanupIdempotent ==
    /\ workdir.removals <= 1
    /\ (hist.explicit /= "none" \/ hist.forced /= "none") =>
          /\ hist.implicit \in {"none", "noop"}
          /\ workdir.cleaned
          /\ workdir.removals = 1
          /\ pc \in {"unwind_programmers", "do_run_exit", "done"} =>
                /\ hist.implicit = "noop"
                /\ workdir.exists <=> "failed" \in {hist.explicit, hist.forced}

\* C14 witness: the scope was left after an explicit cleanup that failed.
C14_Witness ==
    Done /\ hist.explicit = "failed" /\ hist.implicit = "noop"

\* C15: a run started after a run that was interrupted begins with an
\* empty interrupt flag; if no signal is delivered during it, it is not
\* cancelled: it returns a Result, having forked its child unless a step
\* before the fork failed.
C15_FlagResetPerRun ==
    /\ (hist.prev = "interrupted" /\ pc = "program" /\ programmed = {})
          => interrupted_signo = 0
    /\ (hist.prev = "interrupted" /\ Done /\ ~hist.sig) =>
          /\ outcome.kind = "result"
          /\ exc.type = "none" => child.state /= "none"

PassedAt(at) ==
    \E i \in 1..Len(hist.checks) :
        hist.checks[i].at = at /\ hist.checks[i].flag = 0
FlagSetAt(at) ==
    \E i \in 1..Len(hist.checks) :
        hist.checks[i].at = at /\ hist.checks[i].flag /= 0
LastCheck == hist.checks[Len(hist.checks)].at

\* C16: check_interrupt runs immediately before the fork and immediately
\* after fork_and_wait returns; a flag set before the pre-fork checkpoint
\* means no child is ever forked, a flag set before the post-wait checkpoint
\* means the wait outcome is never classified.
C16_WaitBracketedByCheckpoints ==
    /\ pc \in {"fork", "wait"} => LastCheck = "check_prefork"
    /\ pc = "classify" => LastCheck = "check_postwait"
    /\ child.state /= "none" => PassedAt("check_prefork")
    /\ FlagSetAt("check_prefork") => child.state = "none"
    /\ hist.classified /= NULL => PassedAt("check_postwait")
    /\ FlagSetAt("check_postwait") => (hist.classified = NULL /\ result = NULL)
    /\ hist.fw \in {"status", "timeout"} =>
          \/ pc = "check_postwait"
          \/ PassedAt("check_postwait") \/ FlagSetAt("check_postwait")

\* C16 witness: the post-wait checkpoint found the flag set, and the run
\* ended without a classification.
C16_Witness ==
    Done /\ FlagSetAt("check_postwait") /\ hist.fw = "status"
         /\ child.state = "reaped" /\ hist.classified = NULL

\* C18: after interrupt_handler has run for signo the flag is non-empty and
\* equals signo, so it holds the signal delivered last; check_interrupt
\* throws Interrupted with the flag's value exactly when the flag is
\* non-empty and does nothing otherwise.
C18_HandlerAndCheckpoint ==
    /\ hist.sig =>
          /\ hist.last \in {1, 2, 15}
          /\ interrupted_signo = hist.last
    /\ \A i \in 1..Len(hist.checks) :
          hist.checks[i].threw = hist.checks[i].flag
    /\ hist.raised <=>
          \E i \in 1..Len(hist.checks) : hist.checks[i].flag /= 0
    /\ (pc = "catch_cleanup" /\ hist.forced = "none") =>
          /\ exc.type = "interrupted_error"
          /\ exc.num = hist.checks[Len(hist.checks)].flag
          /\ exc.num /= 0

\* C18 witness: a second signal replaced the first in the flag, and
\* check_interrupt threw the second.
C18_Witness ==
    /\ pc = "catch_cleanup" /\ hist.forced = "none"
    /\ Len(hist.checks) >= 2
    /\ hist.checks[Len(hist.checks)].threw = 15
    /\ hist.last = 15 /\ hist.prev = "none"

\* C19: only the delivery of a signal changes the interrupt flag; every
\* other step leaves it as it is, and a non-empty flag never becomes empty.
C19_FlagWrittenOnlyBySignal ==
    [][/\ interrupted_signo' /= interrupted_signo =>
             /\ hist'.sig /\ hist'.last = interrupted_signo'
             /\ hist'.last \in programmed
             /\ pc' = pc \/ (pc = "wait" /\ pc' = "kill")
       /\ interrupted_signo /= 0 => interrupted_signo' /= 0]_vars

\* C19 witness: a run goes on with the flag an earlier run left.
C19_Witness ==
    runs = 2 /\ ~hist.sig /\ interrupted_signo /= 0 /\ pc = "check_start"

\* C17: every run that has started finishes, returning a Result or raising
\* Interrupted, whatever the child does and however signals interleave.
C17_RunFinishes ==
    (pc \notin {"idle", "done"}) ~> (pc = "done")

\* C17 witness: a signal arrived after the pre-fork checkpoint and before
\* the wait, the test program never exited, and the run still finished.
C17_Witness ==
    /\ Done /\ outcome.kind = "interrupted"
    /\ hist.fw = "timeout"
    /\ child.body = "exec" /\ child.status = signaled(9, FALSE)
    /\ PassedAt("check_prefork") /\ FlagSetAt("check_postwait")

-----------------------------------------------------------------------------
(* calculate_result on its own, over every wait outcome.                   *)

WaitOutcomes ==
    {none}
    \cup {exited(c) : c \in 0..MaxStatusCode}
    \cup {signaled(n, core) : n \in 1..MaxStatusSig, core \in BOOLEAN}
    \cup {unknown_status}

InitCalc ==
    /\ pc = "calculate"
    /\ body_status \in WaitOutcomes
    /\ interrupted_signo = 0
    /\ programmed = {}
    /\ workdir = NoWorkdir
    /\ child = NoChild
    /\ result = NULL
    /\ exc = NoExc
    /\ outcome = NoOutcome
    /\ runs = 0
    /\ hist = NewHist

Calculate ==
    /\ pc = "calculate"
    /\ result' = calculate_result(body_status)
    /\ pc' = "calculated"
    /\ UNCHANGED <<interrupted_signo, programmed, workdir, child, body_status,
                   exc, outcome, runs, hist>>

NextCalc == Calculate

SpecCalc == InitCalc /\ [][NextCalc]_vars

\* The mapping of wait outcomes to results, written down independently of
\* calculate_result and format_status.
ReferenceResult(o) ==
    CASE o.type = "none" -> broken("Test case timed out")
      [] o.type = "exited" /\ o.val = 0 -> passed
      [] o.type = "exited" /\ o.val = 120 ->
             broken("Failed to execute test program")
      [] o.type = "exited" /\ o.val \notin {0, 120} ->
             failed("Exited with code " \o ToString(o.val))
      [] o.type = "signaled" /\ o.core ->
             broken("Received signal " \o ToString(o.val) \o " (core dumped)")
      [] o.type = "signaled" /\ ~o.core ->
             broken("Received signal " \o ToString(o.val))
      [] o.type = "unknown" -> broken("Terminated in an unknown manner")

\* C6: calculate_result equals the reference mapping on every wait outcome,
\* and exit code 120 is never classified as failed.
C6_CalculateResultMapping ==
    pc = "calculated" =>
        /\ result = ReferenceResult(body_status)
        /\ body_status = exited(120) => result.kind /= "failed"

\* C6 witness: the exec-failure exit code has been classified.
C6_Witness ==
    pc = "calculated" /\ body_status = exited(120) /\ result.kind = "broken"

====
